---- MODULE Spec2Model ----
(***************************************************************************)
(* Share-token store of NoteDiscovery (backend/share.py).                  *)
(*                                                                         *)
(* One JSON file per data directory maps token strings to records          *)
(* {path, theme, created}.  Every operation loads the whole file; the      *)
(* mutating ones rewrite it under the module-level lock.                   *)
(*                                                                         *)
(* A table is a sequence of entries, in the insertion order a Python dict  *)
(* keeps and json.dump / json.load preserve.                               *)
(***************************************************************************)
EXTENDS Integers, Sequences, FiniteSets, TLC

\* ------------------------------------------------------------------ bounds
\* Distinct strings generate_token can draw (of the 64^16 there are).
NumTokens == 2
\* Distinct instants datetime.now can return.
MaxClock == 2

Tokens == 1..NumTokens
\* Note paths handed in by the callers (the empty path: AnyPaths, below).
Paths == {"a.md", "b.md"}
Themes == {"light", "dark"}
\* dict.get of a key the record does not hold (None).
NoField == "<none>"
NoCreated == 0

\* ------------------------------------------------------------- file states
\* What <data_dir>/.share-tokens.json can be:
\*   absent       no such file
\*   table        a JSON object of records (what save_tokens writes)
\*   corrupt      text that is not JSON (empty or cut short)
\*   undecodable  bytes that are not UTF-8
\*   unreadable   open() fails with an OSError
\*   array        valid JSON whose top level is a list, not an object
FileOf(kind, tokens) == [kind |-> kind, tokens |-> tokens]
AbsentFile == FileOf("absent", <<>>)
CorruptFile == FileOf("corrupt", <<>>)
TableFile(tokens) == FileOf("table", tokens)

Entry(token, path, theme, created) ==
    [token |-> token, path |-> path, theme |-> theme, created |-> created]

\* ------------------------------------------------------------ return values
\* One record shape for everything an operation can hand back.
RetOf(kind, tok, flag, path, theme, created, paths) ==
    [kind |-> kind, tok |-> tok, flag |-> flag, path |-> path,
     theme |-> theme, created |-> created, paths |-> paths]
RetNone == RetOf("none", 0, FALSE, NoField, NoField, NoCreated, <<>>)
RetRaised == RetOf("raised", 0, FALSE, NoField, NoField, NoCreated, <<>>)
RetToken(tok) == RetOf("token", tok, FALSE, NoField, NoField, NoCreated, <<>>)
RetBool(flag) == RetOf("bool", 0, flag, NoField, NoField, NoCreated, <<>>)
RetNote(path, theme) == RetOf("note", 0, FALSE, path, theme, NoCreated, <<>>)
RetInfo(tok, theme, created) ==
    RetOf("info", tok, TRUE, NoField, theme, created, <<>>)
RetNotShared == RetOf("info", 0, FALSE, NoField, NoField, NoCreated, <<>>)
RetPaths(paths) == RetOf("paths", 0, FALSE, NoField, NoField, NoCreated, paths)

\* ------------------------------------------------------------ dict helpers
Keys(tokens) == {tokens[i].token : i \in DOMAIN tokens}

IndexOfKey(tokens, token) ==
    IF token \in Keys(tokens)
    THEN CHOOSE i \in DOMAIN tokens : tokens[i].token = token
    ELSE 0

\* tokens[token] = {...}: a new key goes last, an existing key keeps its place.
DictSet(tokens, token, path, theme, created) ==
    IF token \in Keys(tokens)
    THEN [tokens EXCEPT ![IndexOfKey(tokens, token)] =
              Entry(token, path, theme, created)]
    ELSE Append(tokens, Entry(token, path, theme, created))

\* del tokens[key of entry i]
DictDel(tokens, i) ==
    [j \in 1..(Len(tokens) - 1) |-> IF j < i THEN tokens[j] ELSE tokens[j + 1]]

\* for token, info in tokens.items(): if info.get('path') == note_path
\* Index of the first entry whose path is note_path, 0 when there is none.
FirstMatch(tokens, note_path) ==
    IF \E i \in DOMAIN tokens : tokens[i].path = note_path
    THEN CHOOSE i \in DOMAIN tokens :
            /\ tokens[i].path = note_path
            /\ \A j \in 1..(i - 1) : tokens[j].path # note_path
    ELSE 0

\* ------------------------------------------------------------- load / save
\* load_tokens: {} for a missing file, for JSONDecodeError and for IOError;
\* whatever json.load returns otherwise; UnicodeDecodeError is not caught.
load_tokens(file) ==
    CASE file.kind = "absent"      -> [raised |-> FALSE, isdict |-> TRUE, tokens |-> <<>>]
      [] file.kind = "table"       -> [raised |-> FALSE, isdict |-> TRUE, tokens |-> file.tokens]
      [] file.kind = "corrupt"     -> [raised |-> FALSE, isdict |-> TRUE, tokens |-> <<>>]
      [] file.kind = "unreadable"  -> [raised |-> FALSE, isdict |-> TRUE, tokens |-> <<>>]
      [] file.kind = "array"       -> [raised |-> FALSE, isdict |-> FALSE, tokens |-> <<>>]
      [] file.kind = "undecodable" -> [raised |-> TRUE, isdict |-> FALSE, tokens |-> <<>>]

\* How the write of save_tokens can end:
\*   ok          the file holds the new table
\*   fail_open   mkdir or open(.., 'w') raised: the file is untouched
\*   fail_write  open(.., 'w') truncated the file, then the dump or the flush
\*               raised: the file is empty or cut short
IOOutcomes == {"ok", "fail_open", "fail_write"}

save_tokens(file, tokens, outcome) ==
    CASE outcome = "ok"         -> [ok |-> TRUE, file |-> TableFile(tokens)]
      [] outcome = "fail_open"  -> [ok |-> FALSE, file |-> file]
      [] outcome = "fail_write" -> [ok |-> FALSE, file |-> CorruptFile]

\* --------------------------------------------------------------- operations
\* Each operation as a function of the file it finds and of what its
\* environment supplies (the token the generator draws, the clock, how the
\* write ends), giving what it returns and the file it leaves.
Outcome(ret, file) == [ret |-> ret, file |-> file]

\* A generator whose loop is missing: the first draw is used as it is.
TokenAccepted_NoCheck(tokens, token) == TRUE

\* while token in tokens: token = generate_token()
\* The token the loop hands on is one that is not a key of the table.
TokenAccepted(tokens, token) == token \notin Keys(tokens)

\* A lookup without the default: a record with no theme gives None.
ThemeOrDefault_NoDefault(theme) == theme

\* tokens[token].get('theme', 'light') / info.get('theme', 'light')
ThemeOrDefault(theme) == IF theme = NoField THEN "light" ELSE theme

\* Python truth of info.get('path'): None and '' are false.
Truthy(path) == path # NoField /\ path # ""

\* A create that stores the default theme instead of the one it was given.
create_share_token_DefaultTheme(file, note_path, theme, token, now, outcome) ==
    LET loaded == load_tokens(file)
        tokens == loaded.tokens
        i == FirstMatch(tokens, note_path)
        saved == save_tokens(file, DictSet(tokens, token, note_path, "light", now), outcome)
    IN  IF loaded.raised \/ ~loaded.isdict THEN Outcome(RetRaised, file)
        ELSE IF i # 0 THEN Outcome(RetToken(tokens[i].token), file)
        ELSE IF saved.ok THEN Outcome(RetToken(token), saved.file)
        ELSE Outcome(RetNone, saved.file)

\* A create that refreshes the theme of the record it finds.
create_share_token_Upsert(file, note_path, theme, token, now, outcome) ==
    LET loaded == load_tokens(file)
        tokens == loaded.tokens
        i == FirstMatch(tokens, note_path)
        saved == save_tokens(file, DictSet(tokens, token, note_path, theme, now), outcome)
        again == save_tokens(file, [tokens EXCEPT ![i].theme = theme], outcome)
    IN  IF loaded.raised \/ ~loaded.isdict THEN Outcome(RetRaised, file)
        ELSE IF i # 0 THEN Outcome(RetToken(tokens[i].token), again.file)
        ELSE IF saved.ok THEN Outcome(RetToken(token), saved.file)
        ELSE Outcome(RetNone, saved.file)

create_share_token(file, note_path, theme, token, now, outcome) ==
    LET loaded == load_tokens(file)
        tokens == loaded.tokens
        i == FirstMatch(tokens, note_path)
        saved == save_tokens(file, DictSet(tokens, token, note_path, theme, now), outcome)
    IN  IF loaded.raised \/ ~loaded.isdict THEN Outcome(RetRaised, file)
        ELSE IF i # 0 THEN Outcome(RetToken(tokens[i].token), file)
        ELSE IF saved.ok THEN Outcome(RetToken(token), saved.file)
        ELSE Outcome(RetNone, saved.file)

get_share_token(file, note_path) ==
    LET loaded == load_tokens(file)
        tokens == loaded.tokens
        i == FirstMatch(tokens, note_path)
    IN  IF loaded.raised \/ ~loaded.isdict THEN RetRaised
        ELSE IF i # 0 THEN RetToken(tokens[i].token)
        ELSE RetNone

\* "token in tokens" is defined on a list too (and false there).
get_note_by_token(file, token) ==
    LET loaded == load_tokens(file)
        tokens == loaded.tokens
        i == IndexOfKey(tokens, token)
    IN  IF loaded.raised THEN RetRaised
        ELSE IF i # 0 THEN RetNote(tokens[i].path, ThemeOrDefault(tokens[i].theme))
        ELSE RetNone

\* A listing that keeps every path, the empty one too.
get_all_shared_paths_Unfiltered(file) ==
    LET loaded == load_tokens(file)
        tokens == loaded.tokens
    IN  IF loaded.raised \/ ~loaded.isdict THEN RetRaised
        ELSE RetPaths([i \in DOMAIN tokens |-> tokens[i].path])

get_all_shared_paths(file) ==
    LET loaded == load_tokens(file)
        tokens == loaded.tokens
    IN  IF loaded.raised \/ ~loaded.isdict THEN RetRaised
        ELSE RetPaths(SelectSeq([i \in DOMAIN tokens |-> tokens[i].path], Truthy))

\* A revoke that removes every record of note_path, not the first alone.
revoke_share_token_EveryMatch(file, note_path, outcome) ==
    LET loaded == load_tokens(file)
        tokens == loaded.tokens
        i == FirstMatch(tokens, note_path)
        OtherPath(e) == e.path # note_path
        saved == save_tokens(file, SelectSeq(tokens, OtherPath), outcome)
    IN  IF loaded.raised \/ ~loaded.isdict THEN Outcome(RetRaised, file)
        ELSE IF i # 0 THEN Outcome(RetBool(saved.ok), saved.file)
        ELSE Outcome(RetBool(FALSE), file)

\* Generated tokens are 16 characters long, so "if token_to_remove" is true
\* whenever a match was found.
revoke_share_token(file, note_path, outcome) ==
    LET loaded == load_tokens(file)
        tokens == loaded.tokens
        i == FirstMatch(tokens, note_path)
        saved == save_tokens(file, DictDel(tokens, i), outcome)
    IN  IF loaded.raised \/ ~loaded.isdict THEN Outcome(RetRaised, file)
        ELSE IF i # 0 THEN Outcome(RetBool(saved.ok), saved.file)
        ELSE Outcome(RetBool(FALSE), file)

get_share_info(file, note_path) ==
    LET loaded == load_tokens(file)
        tokens == loaded.tokens
        i == FirstMatch(tokens, note_path)
    IN  IF loaded.raised \/ ~loaded.isdict THEN RetRaised
        ELSE IF i # 0
        THEN RetInfo(tokens[i].token, ThemeOrDefault(tokens[i].theme), tokens[i].created)
        ELSE RetNotShared

\* A rename that goes on after the first match and changes every record of
\* old_path.
update_token_path_EveryMatch(file, old_path, new_path, outcome) ==
    LET loaded == load_tokens(file)
        tokens == loaded.tokens
        i == FirstMatch(tokens, old_path)
        renamed == [j \in DOMAIN tokens |->
                       IF tokens[j].path = old_path
                       THEN [tokens[j] EXCEPT !.path = new_path]
                       ELSE tokens[j]]
        saved == save_tokens(file, renamed, outcome)
    IN  IF loaded.raised \/ ~loaded.isdict THEN Outcome(RetRaised, file)
        ELSE IF i # 0 THEN Outcome(RetBool(saved.ok), saved.file)
        ELSE Outcome(RetBool(FALSE), file)

update_token_path(file, old_path, new_path, outcome) ==
    LET loaded == load_tokens(file)
        tokens == loaded.tokens
        i == FirstMatch(tokens, old_path)
        saved == save_tokens(file, [tokens EXCEPT ![i].path = new_path], outcome)
    IN  IF loaded.raised \/ ~loaded.isdict THEN Outcome(RetRaised, file)
        ELSE IF i # 0 THEN Outcome(RetBool(saved.ok), saved.file)
        ELSE Outcome(RetBool(FALSE), file)

delete_token_for_note(file, note_path, outcome) ==
    revoke_share_token(file, note_path, outcome)

\* True when the call gets as far as save_tokens: the table loaded, and a
\* matching record was found (revoke, update) or was not (create).
ReachesSave(file, note_path, on_match) ==
    LET loaded == load_tokens(file)
    IN  /\ ~loaded.raised
        /\ loaded.isdict
        /\ (FirstMatch(loaded.tokens, note_path) # 0) = on_match

\* The ways the write can end for a call; a call that returns before
\* save_tokens has no write.
Writes(file, note_path, on_match) ==
    IF ReachesSave(file, note_path, on_match) THEN IOOutcomes ELSE {"ok"}

\* The tokens the generator's loop can end with; a call that returns before
\* line 82 draws none.
Draws(file, note_path) ==
    IF ReachesSave(file, note_path, FALSE)
    THEN {token \in Tokens : TokenAccepted(load_tokens(file).tokens, token)}
    ELSE {1}

\* ------------------------------------------------- one caller, one directory
\* file   the token file of the data directory
\* clock  the instant datetime.now(timezone.utc) returns
\* last   the latest call: its name, its arguments and what it returned
VARIABLES file, clock, last

\* Callers running at once (second half of the module):
\* files  the token file of each data directory
\* held   the locks held: which lock, and the thread that holds it
\* thr    each thread's call: its place in the code and its local variables
\* proc   the process each thread belongs to
VARIABLES files, held, thr, proc

seqvars == <<file, clock, last>>
thrvars == <<files, held, thr, proc>>
vars == <<file, clock, last, files, held, thr, proc>>

\* Threads of the server and the data directories they are handed.
Threads == {"t1", "t2"}
Dirs == {"d1", "d2"}
Procs == {"p1", "p2"}

MutatingOps == {"create", "revoke", "update", "delete"}
ReadingOps == {"get_token", "get_note", "list", "get_info"}

\* A thread's frame: pc is its place in the function it runs,
\*   idle    not in the module
\*   lock    at "with _lock:", not yet holding it
\*   load    about to call load_tokens
\*   gen     in the token generator's loop of create_share_token
\*   open    in save_tokens, before open(tokens_file, 'w')
\*   write   in save_tokens, the file opened and truncated
\*   unlock  leaving the with block
\*   done    returned (ret is what the caller got)
\* before is the table load_tokens gave, tokens the table as the function
\* has changed it.
Frame(pc, op, dir, path, arg, tok, before, tokens, ret) ==
    [pc |-> pc, op |-> op, dir |-> dir, path |-> path, arg |-> arg, tok |-> tok,
     before |-> before, tokens |-> tokens, ret |-> ret]

IdleFrame == Frame("idle", "none", "d1", NoField, NoField, 0, <<>>, <<>>, RetNone)

\* One lock per data directory instead of one for the module.
LockKey_PerDirectory(p, dir) == <<p, dir>>

\* One lock for every process of the machine instead of one per process.
LockKey_AcrossProcesses(p, dir) == <<"p1", "_lock">>

\* The lock a call takes: the one module-level _lock of its process, whatever
\* the data directory.
LockKey(p, dir) == <<p, "_lock">>

AtRest ==
    /\ files = [d \in Dirs |-> AbsentFile]
    /\ held = {}
    /\ thr = [t \in Threads |-> IdleFrame]

Call(op, path, arg, tok, ret) ==
    [op |-> op, path |-> path, arg |-> arg, tok |-> tok, ret |-> ret]

Init ==
    /\ file = AbsentFile
    /\ clock = 1
    /\ last = Call("init", NoField, NoField, 0, RetNone)
    /\ AtRest
    /\ proc = [t \in Threads |-> "p1"]

Tick ==
    /\ clock < MaxClock
    /\ clock' = clock + 1
    /\ UNCHANGED <<file, last>>
    /\ UNCHANGED thrvars

Create ==
    \E note_path \in Paths, theme \in Themes :
        \E token \in Draws(file, note_path), outcome \in Writes(file, note_path, FALSE) :
            LET r == create_share_token(file, note_path, theme, token, clock, outcome)
            IN  /\ file' = r.file
                /\ last' = Call("create", note_path, theme, 0, r.ret)
                /\ UNCHANGED clock
                /\ UNCHANGED thrvars

GetShareToken ==
    \E note_path \in Paths :
        /\ last' = Call("get_token", note_path, NoField, 0, get_share_token(file, note_path))
        /\ UNCHANGED <<file, clock>>
        /\ UNCHANGED thrvars

GetNoteByToken ==
    \E token \in Tokens :
        /\ last' = Call("get_note", NoField, NoField, token, get_note_by_token(file, token))
        /\ UNCHANGED <<file, clock>>
        /\ UNCHANGED thrvars

GetAllSharedPaths ==
    /\ last' = Call("list", NoField, NoField, 0, get_all_shared_paths(file))
    /\ UNCHANGED <<file, clock>>
    /\ UNCHANGED thrvars

Revoke ==
    \E note_path \in Paths :
        \E outcome \in Writes(file, note_path, TRUE) :
            LET r == revoke_share_token(file, note_path, outcome)
            IN  /\ file' = r.file
                /\ last' = Call("revoke", note_path, NoField, 0, r.ret)
                /\ UNCHANGED clock
                /\ UNCHANGED thrvars

GetShareInfo ==
    \E note_path \in Paths :
        /\ last' = Call("get_info", note_path, NoField, 0, get_share_info(file, note_path))
        /\ UNCHANGED <<file, clock>>
        /\ UNCHANGED thrvars

UpdateTokenPath ==
    \E old_path \in Paths, new_path \in Paths :
        \E outcome \in Writes(file, old_path, TRUE) :
            LET r == update_token_path(file, old_path, new_path, outcome)
            IN  /\ file' = r.file
                /\ last' = Call("update", old_path, new_path, 0, r.ret)
                /\ UNCHANGED clock
                /\ UNCHANGED thrvars

DeleteTokenForNote ==
    \E note_path \in Paths :
        \E outcome \in Writes(file, note_path, TRUE) :
            LET r == delete_token_for_note(file, note_path, outcome)
            IN  /\ file' = r.file
                /\ last' = Call("delete", note_path, NoField, 0, r.ret)
                /\ UNCHANGED clock
                /\ UNCHANGED thrvars

Next ==
    \/ Tick
    \/ Create
    \/ GetShareToken
    \/ GetNoteByToken
    \/ GetAllSharedPaths
    \/ Revoke
    \/ GetShareInfo
    \/ UpdateTokenPath
    \/ DeleteTokenForNote

Spec == Init /\ [][Next]_vars

\* The same caller, starting from whatever the directory may hold: no file,
\* a damaged file, a file that is not a table, or a table written by an
\* earlier version whose record has no theme.
LegacyTable == <<Entry(1, "a.md", NoField, NoCreated)>>

FileInits ==
    {AbsentFile, CorruptFile, FileOf("undecodable", <<>>), FileOf("unreadable", <<>>),
     FileOf("array", <<>>), TableFile(LegacyTable)}

InitAnyFile ==
    /\ file \in FileInits
    /\ clock = 1
    /\ last = Call("init", NoField, NoField, 0, RetNone)
    /\ AtRest
    /\ proc = [t \in Threads |-> "p1"]

SpecAnyFile == InitAnyFile /\ [][Next]_vars

\* ------------------------------------------------------ reading the state
\* The table a load finds in the file.
Table == load_tokens(file).tokens

\* The latest call was a create that handed back a token.
CreatedToken == last.op = "create" /\ last.ret.kind = "token"

\* This step is a call of create (a step of Tick moves the clock).
CreateStep == last'.op = "create" /\ clock' = clock

\* This step is a call of the operation op.
StepOf(op) == last'.op = op /\ clock' = clock

\* The paths get_all_shared_paths lists.
Listed == {get_all_shared_paths(file).paths[i] : i \in DOMAIN get_all_shared_paths(file).paths}

\* ------------------------------------------------------------------ C1
\* C1: in every state reached from an absent file by create, revoke, delete
\* and update_token_path calls, at most one record of the persisted table
\* has a given path.
C1_AtMostOneTokenPerPath ==
    \A i, j \in DOMAIN Table : Table[i].path = Table[j].path => i = j

\* ------------------------------------------------------------------ C2
\* C2, as claimed: a create(d, p, t) that returned a token, followed by
\* get_note_by_token on that token, gives {path: p, theme: t}.
C2_RoundTripAnyCreate ==
    CreatedToken => get_note_by_token(file, last.ret.tok) = RetNote(last.path, last.arg)

\* C2, amended: the round trip gives {path: p, theme: t} when no record held
\* p before the call; when one did, it gives p and the theme that record
\* already had.
C2_RoundTrip ==
    [][ (CreateStep /\ last'.ret.kind = "token") =>
          LET i == FirstMatch(Table, last'.path)
              note == get_note_by_token(file', last'.ret.tok)
          IN  IF i = 0
              THEN note = RetNote(last'.path, last'.arg)
              ELSE note = RetNote(last'.path, ThemeOrDefault(Table[i].theme)) ]_vars

\* A create with theme "dark" made a record, and the token resolves to it.
C2_Witness ==
    /\ CreatedToken
    /\ last.arg = "dark"
    /\ get_note_by_token(file, last.ret.tok) = RetNote(last.path, "dark")

\* ------------------------------------------------------------------ C3
\* Once create has returned a token for a path, the path resolves to it.
C3_CreateLeavesTheRecord ==
    CreatedToken => get_share_token(file, last.path) = RetToken(last.ret.tok)

\* A create for a path that resolves to a token, and so a create that
\* directly follows one for the same path, returns that token and leaves the
\* file as it was.
C3_RepeatedCreate ==
    /\ (CreateStep /\ get_share_token(file, last'.path).kind = "token") =>
          /\ last'.ret = get_share_token(file, last'.path)
          /\ file' = file
    /\ (CreatedToken /\ CreateStep /\ last'.path = last.path) =>
          /\ last'.ret = last.ret
          /\ file' = file

C4_FreshTokenKeepsRecords ==
    (CreateStep /\ last'.ret.kind = "token" /\ FirstMatch(Table, last'.path) = 0) =>
        /\ last'.ret.tok \notin Keys(Table)
        /\ load_tokens(file').tokens =
              Append(Table, Entry(last'.ret.tok, last'.path, last'.arg, clock))

\* No key occurs twice, and two paths never resolve to one token.
C4_DistinctTokens ==
    /\ \A i, j \in DOMAIN Table : Table[i].token = Table[j].token => i = j
    /\ \A p, q \in Paths :
          (p # q /\ get_share_token(file, p).kind = "token")
              => get_share_token(file, p) # get_share_token(file, q)

C5_RevokeClearsViews ==
    (last.op = "revoke" /\ last.ret = RetBool(TRUE)) =>
        /\ get_share_token(file, last.path) = RetNone
        /\ get_share_info(file, last.path) = RetNotShared
        /\ last.path \notin Listed

\* ------------------------------------------------------------------ C6
\* C6: when create(d, a) has returned token T and update_token_path(d, a, b)
\* with b # a follows and returns true, T resolves to path b and
\* get_share_token(d, a) is None.
C6_RenamePreservesToken ==
    [][ (CreatedToken /\ StepOf("update") /\ last'.path = last.path
            /\ last'.arg # last'.path /\ last'.ret = RetBool(TRUE)) =>
          /\ get_note_by_token(file', last.ret.tok).path = last'.arg
          /\ get_share_token(file', last.path) = RetNone ]_vars

\* ------------------------------------------------------------------ C9
\* C9: whatever the file holds and however the write ends, every operation
\* ends by returning a value; none raises.
C9_NeverRaises == last.ret.kind # "raised"

\* ------------------------------------------------------------------ C10
\* A call that reports failure: None from create, false from the others.
FailedStep ==
    \/ CreateStep /\ last'.ret = RetNone
    \/ (StepOf("revoke") \/ StepOf("delete") \/ StepOf("update"))
          /\ last'.ret = RetBool(FALSE)

\* A revoke that reports success.
RevokedStep == (StepOf("revoke") \/ StepOf("delete")) /\ last'.ret = RetBool(TRUE)

\* C10: a create that returns None, and a revoke, delete or update that
\* returns false, leaves the persisted table as it was before the call; and
\* a revoke returns true only when a record matched and the table without
\* that record was saved.
C10_FailureKeepsTable ==
    [][ /\ FailedStep => load_tokens(file').tokens = Table
        /\ RevokedStep =>
              /\ FirstMatch(Table, last'.path) # 0
              /\ file' = TableFile(DictDel(Table, FirstMatch(Table, last'.path))) ]_vars

\* ------------------------------------------------- callers running at once
\* The same functions, one step per access to what the threads share: taking
\* the lock, reading the file, truncating it, writing it, releasing the lock.

\* The calls a thread can make.  create is called with its default theme.
Calls ==
    [op : {"create"}, path : Paths, arg : {"light"}, tok : {0}]
    \cup [op : {"revoke", "delete", "get_token", "get_info"}, path : Paths,
          arg : {NoField}, tok : {0}]
    \cup [op : {"update"}, path : Paths, arg : Paths, tok : {0}]
    \cup [op : {"get_note"}, path : {NoField}, arg : {NoField}, tok : Tokens]
    \cup [op : {"list"}, path : {NoField}, arg : {NoField}, tok : {0}]

\* What a mutating call returns when save_tokens returned ok.
SaveResult(op, tok, ok) ==
    IF op = "create" THEN (IF ok THEN RetToken(tok) ELSE RetNone) ELSE RetBool(ok)

\* The frame of a mutating call after load_tokens and the scan of the table.
Loaded(f, loaded) ==
    LET tokens == loaded.tokens
        i == FirstMatch(tokens, f.path)
    IN  IF loaded.raised \/ ~loaded.isdict
        THEN [f EXCEPT !.pc = "unlock", !.ret = RetRaised]
        ELSE IF f.op = "create"
        THEN IF i # 0
             THEN [f EXCEPT !.pc = "unlock", !.ret = RetToken(tokens[i].token)]
             ELSE [f EXCEPT !.pc = "gen", !.before = tokens, !.tokens = tokens]
        ELSE IF i = 0
        THEN [f EXCEPT !.pc = "unlock", !.ret = RetBool(FALSE)]
        ELSE IF f.op = "update"
        THEN [f EXCEPT !.pc = "open", !.before = tokens,
                       !.tokens = [tokens EXCEPT ![i].path = f.arg]]
        ELSE [f EXCEPT !.pc = "open", !.before = tokens, !.tokens = DictDel(tokens, i)]

\* What a read-only call returns from the file it finds.
ReadResult(f, found) ==
    CASE f.op = "get_token" -> get_share_token(found, f.path)
      [] f.op = "get_note"  -> get_note_by_token(found, f.tok)
      [] f.op = "list"      -> get_all_shared_paths(found)
      [] f.op = "get_info"  -> get_share_info(found, f.path)

\* A thread calls one of the module's functions: one of calls, on one of dirs.
Enter(t, calls, dirs) ==
    /\ thr[t].pc \in {"idle", "done"}
    /\ \E c \in calls, dir \in dirs :
          thr' = [thr EXCEPT ![t] =
                     Frame(IF c.op \in MutatingOps THEN "lock" ELSE "load",
                           c.op, dir, c.path, c.arg, c.tok, <<>>, <<>>, RetNone)]
    /\ UNCHANGED <<files, held, proc>>
    /\ UNCHANGED seqvars

\* A with block that does not wait for the lock.
Acquire_NoWait(t) ==
    /\ thr[t].pc = "lock"
    /\ held' = held \cup {[key |-> LockKey(proc[t], thr[t].dir), owner |-> t]}
    /\ thr' = [thr EXCEPT ![t].pc = "load"]
    /\ UNCHANGED <<files, proc>>
    /\ UNCHANGED seqvars

\* with _lock: (blocks while the lock is held)
Acquire(t) ==
    /\ thr[t].pc = "lock"
    /\ \A h \in held : h.key # LockKey(proc[t], thr[t].dir)
    /\ held' = held \cup {[key |-> LockKey(proc[t], thr[t].dir), owner |-> t]}
    /\ thr' = [thr EXCEPT ![t].pc = "load"]
    /\ UNCHANGED <<files, proc>>
    /\ UNCHANGED seqvars

\* tokens = load_tokens(data_dir) and the scan, in a mutating call
Load(t) ==
    /\ thr[t].pc = "load"
    /\ thr[t].op \in MutatingOps
    /\ thr' = [thr EXCEPT ![t] = Loaded(thr[t], load_tokens(files[thr[t].dir]))]
    /\ UNCHANGED <<files, held, proc>>
    /\ UNCHANGED seqvars

\* The frame is gone when the call has returned; the caller has the name of
\* the function it called and the value it got.
Returned(f, ret) == Frame("done", f.op, "d1", NoField, NoField, 0, <<>>, <<>>, ret)

\* A read-only call: load_tokens without the lock, the lookup, the return.
Read(t) ==
    /\ thr[t].pc = "load"
    /\ thr[t].op \in ReadingOps
    /\ thr' = [thr EXCEPT ![t] = Returned(thr[t], ReadResult(thr[t], files[thr[t].dir]))]
    /\ UNCHANGED <<files, held, proc>>
    /\ UNCHANGED seqvars

\* generate_token() gave a key of the table: the loop draws again.
GenerateCollision(t) ==
    /\ thr[t].pc = "gen"
    /\ \E token \in Tokens : ~TokenAccepted(thr[t].tokens, token)
    /\ UNCHANGED thrvars
    /\ UNCHANGED seqvars

\* generate_token() gave a new key: tokens[token] = {...}
GenerateFresh(t) ==
    /\ thr[t].pc = "gen"
    /\ \E token \in Tokens :
          /\ TokenAccepted(thr[t].tokens, token)
          /\ thr' = [thr EXCEPT ![t].pc = "open",
                                ![t].tok = token,
                                ![t].tokens = DictSet(thr[t].tokens, token, thr[t].path,
                                                      thr[t].arg, clock)]
    /\ UNCHANGED <<files, held, proc>>
    /\ UNCHANGED seqvars

\* save_tokens: mkdir or open(tokens_file, 'w') raises an OSError
OpenFails(t) ==
    /\ thr[t].pc = "open"
    /\ thr' = [thr EXCEPT ![t].pc = "unlock",
                          ![t].ret = SaveResult(thr[t].op, thr[t].tok, FALSE)]
    /\ UNCHANGED <<files, held, proc>>
    /\ UNCHANGED seqvars

\* save_tokens: open(tokens_file, 'w') leaves the file empty
OpenTruncates(t) ==
    /\ thr[t].pc = "open"
    /\ files' = [files EXCEPT ![thr[t].dir] = CorruptFile]
    /\ thr' = [thr EXCEPT ![t].pc = "write"]
    /\ UNCHANGED <<held, proc>>
    /\ UNCHANGED seqvars

\* save_tokens: json.dump and the close of the file go through
WriteCompletes(t) ==
    /\ thr[t].pc = "write"
    /\ files' = [files EXCEPT ![thr[t].dir] = TableFile(thr[t].tokens)]
    /\ thr' = [thr EXCEPT ![t].pc = "unlock",
                          ![t].ret = SaveResult(thr[t].op, thr[t].tok, TRUE)]
    /\ UNCHANGED <<held, proc>>
    /\ UNCHANGED seqvars

\* save_tokens: the write raises an OSError, the file stays cut short
WriteFails(t) ==
    /\ thr[t].pc = "write"
    /\ thr' = [thr EXCEPT ![t].pc = "unlock",
                          ![t].ret = SaveResult(thr[t].op, thr[t].tok, FALSE)]
    /\ UNCHANGED <<files, held, proc>>
    /\ UNCHANGED seqvars

\* A return from inside the block that leaves the lock held.
Release_KeepsLock(t) ==
    /\ thr[t].pc = "unlock"
    /\ thr' = [thr EXCEPT ![t] = Returned(thr[t], thr[t].ret)]
    /\ UNCHANGED <<files, held, proc>>
    /\ UNCHANGED seqvars

\* The with block ends (by return or by an exception) and the call returns.
Release(t) ==
    /\ thr[t].pc = "unlock"
    /\ held' = {h \in held : h.owner # t}
    /\ thr' = [thr EXCEPT ![t] = Returned(thr[t], thr[t].ret)]
    /\ UNCHANGED <<files, proc>>
    /\ UNCHANGED seqvars

\* The calls about one note.
NoteCalls ==
    {c \in Calls : c.path \in {"a.md", NoField} /\ c.arg \in {"a.md", "light", NoField}
                   /\ c.tok \in {0, 1}}

\* Threads of one process, every call, one data directory.
ThreadNext ==
    \E t \in Threads :
        \/ Enter(t, Calls, {"d1"})
        \/ Acquire(t)
        \/ Load(t)
        \/ Read(t)
        \/ GenerateCollision(t)
        \/ GenerateFresh(t)
        \/ OpenFails(t)
        \/ OpenTruncates(t)
        \/ WriteCompletes(t)
        \/ WriteFails(t)
        \/ Release(t)

SpecThreads == Init /\ [][ThreadNext]_vars

\* Threads of one process, the calls about one note, every data directory.
DirsNext ==
    \E t \in Threads :
        \/ Enter(t, NoteCalls, Dirs)
        \/ Acquire(t)
        \/ Load(t)
        \/ Read(t)
        \/ GenerateCollision(t)
        \/ GenerateFresh(t)
        \/ OpenFails(t)
        \/ OpenTruncates(t)
        \/ WriteCompletes(t)
        \/ WriteFails(t)
        \/ Release(t)

\* d2 already holds the share of another note.
InitDirs ==
    /\ file = AbsentFile
    /\ clock = 1
    /\ last = Call("init", NoField, NoField, 0, RetNone)
    /\ files = [d \in Dirs |-> IF d = "d2"
                               THEN TableFile(<<Entry(1, "b.md", "light", 1)>>)
                               ELSE AbsentFile]
    /\ held = {}
    /\ thr = [t \in Threads |-> IdleFrame]
    /\ proc = [t \in Threads |-> "p1"]

SpecDirs == InitDirs /\ [][DirsNext]_vars

\* ------------------------------------------------------------------ C7
\* This step is the load and return of r's read-only call.
ReadStep(r) == thr[r].pc = "load" /\ thr[r].op \in ReadingOps /\ thr'[r].pc = "done"

\* w is inside save_tokens, rewriting the file of dir.
Writing(w, dir) == thr[w].pc = "write" /\ thr[w].dir = dir

\* C7: a read-only call that loads the file while a mutating call is writing
\* it returns what it would return on the table as it was before that write
\* or on the table that write puts there.
C7_NoTornRead ==
    [][ \A r, w \in Threads :
          (ReadStep(r) /\ Writing(w, thr[r].dir)) =>
              thr'[r].ret \in {ReadResult(thr[r], TableFile(thr[w].before)),
                               ReadResult(thr[r], TableFile(thr[w].tokens))} ]_vars

\* ------------------------------------------------------------------ C8
\* t is between its load and the end of its save, in a mutating call.
Critical(t) == thr[t].op \in MutatingOps /\ thr[t].pc \in {"load", "gen", "open", "write"}

Damaged(f) == f.kind \in {"corrupt", "undecodable"}

\* C11: when the file is cut short or damaged, load_tokens gives the empty
\* table without raising, and a create whose write goes through returns a
\* token and leaves a file holding a table of exactly the new record.
C11_CreateRepairsDamage ==
    [][ (CreateStep /\ Damaged(file)) =>
          /\ ~load_tokens(file).raised
          /\ load_tokens(file).tokens = <<>>
          /\ last'.ret # RetNone =>
                /\ last'.ret.kind = "token"
                /\ file' = TableFile(<<Entry(last'.ret.tok, last'.path,
                                             last'.arg, clock)>>) ]_vars

\* ------------------------------------------------------------------ C12
\* Two server processes on one data directory: each has imported the module
\* and so has a _lock of its own.
InitProcs ==
    /\ file = AbsentFile
    /\ clock = 1
    /\ last = Call("init", NoField, NoField, 0, RetNone)
    /\ AtRest
    /\ proc = [t \in Threads |-> IF t = "t1" THEN "p1" ELSE "p2"]

\* What the processes are asked to do: share a note, stop sharing it, serve a
\* shared note.
ShareCalls == {c \in Calls : c.op \in {"create", "revoke", "get_note"}}

ProcsNext ==
    \E t \in Threads :
        \/ Enter(t, ShareCalls, {"d1"})
        \/ Acquire(t)
        \/ Load(t)
        \/ Read(t)
        \/ GenerateCollision(t)
        \/ GenerateFresh(t)
        \/ OpenFails(t)
        \/ OpenTruncates(t)
        \/ WriteCompletes(t)
        \/ WriteFails(t)
        \/ Release(t)

SpecProcs == InitProcs /\ [][ProcsNext]_vars

\* The lock a thread takes is only ever held by a thread of its own process.
C12_LocksArePerProcess ==
    \A t \in Threads : \A h \in held :
        h.key = LockKey(proc[t], thr[t].dir) => proc[h.owner] = proc[t]

\* A create whose write goes through leaves the file holding the table it
\* loaded with its own record added, whatever the file has come to hold since
\* the load, and returns its token.
C12_LastWriterWins ==
    \A t \in Threads :
        (thr[t].op = "create" /\ thr[t].pc = "write" /\ thr'[t].pc = "unlock"
            /\ files' # files) =>
            /\ thr'[t].ret = RetToken(thr[t].tok)
            /\ files'[thr[t].dir] =
                  TableFile(Append(thr[t].before,
                                   Entry(thr[t].tok, thr[t].path, thr[t].arg, clock)))

\* C12: the locks of two processes do not exclude each other, and a create
\* overwrites the file with its own view of the table and reports success.
\* The state of C12_LostUpdate is reachable.
C12_NoCrossProcessProtection == []C12_LocksArePerProcess /\ [][C12_LastWriterWins]_vars

\* Both processes are at the end of a create that saved, for two paths, each
\* about to return its token; the file holds one record, the last writer's.
C12_LostUpdate ==
    \E t1, t2 \in Threads :
        /\ proc[t1] # proc[t2]
        /\ thr[t1].op = "create" /\ thr[t1].pc = "unlock"
        /\ thr[t2].op = "create" /\ thr[t2].pc = "unlock"
        /\ thr[t1].path # thr[t2].path
        /\ thr[t1].ret = RetToken(thr[t1].tok)
        /\ thr[t2].ret = RetToken(thr[t2].tok)
        /\ thr[t1].tok # thr[t2].tok
        /\ thr[t1].dir = thr[t2].dir
        /\ files[thr[t1].dir] =
              TableFile(<<Entry(thr[t2].tok, thr[t2].path, thr[t2].arg, clock)>>)
        /\ get_note_by_token(files[thr[t1].dir], thr[t1].tok) = RetNone

\* ------------------------------------------------------------------ C13
\* The theme a read is to report for a record.
ReportedTheme(e) == IF e.theme = NoField THEN "light" ELSE e.theme

\* C13: get_note_by_token and get_share_info report "light" for a record
\* stored without a theme, and the stored theme for a record that has one.
C13_DefaultTheme ==
    /\ (last.op = "get_note" /\ last.ret.kind = "note") =>
          last.ret.theme = ReportedTheme(Table[IndexOfKey(Table, last.tok)])
    /\ (last.op = "get_info" /\ last.ret.kind = "info" /\ last.ret.flag) =>
          last.ret.theme = ReportedTheme(Table[FirstMatch(Table, last.path)])

\* get_share_info has reported "light" for the record that has no theme,
\* in a table that also holds a record stored with "dark".
C13_Witness ==
    /\ last.op = "get_info"
    /\ last.ret.flag
    /\ last.ret.theme = "light"
    /\ Table[FirstMatch(Table, last.path)].theme = NoField
    /\ \E i \in DOMAIN Table :
          /\ Table[i].theme = "dark"
          /\ get_note_by_token(file, Table[i].token).theme = "dark"

\* ------------------------------------------------------------------ C14
\* What the call of frame f gives when it runs alone on the file found, its
\* write going through.
Alone(f, found) ==
    CASE f.op = "create" -> create_share_token(found, f.path, f.arg, f.tok, clock, "ok")
      [] f.op = "revoke" -> revoke_share_token(found, f.path, "ok")
      [] f.op = "delete" -> delete_token_for_note(found, f.path, "ok")
      [] f.op = "update" -> update_token_path(found, f.path, f.arg, "ok")

\* Between its load and its write a mutating call finds the file as it
\* loaded it; while it writes, the file is as its own open left it.
C14_NoneInBetween ==
    \A t \in Threads :
        /\ (thr[t].op \in MutatingOps /\ thr[t].pc \in {"gen", "open"}) =>
              load_tokens(files[thr[t].dir]).tokens = thr[t].before
        /\ (thr[t].op \in MutatingOps /\ thr[t].pc = "write") =>
              files[thr[t].dir] = CorruptFile

\* A mutating call that ends without a write returns what it returns alone
\* on the file of that moment; one whose write goes through leaves the file
\* and returns the value it does alone on the file it loaded.
C14_EachCallAlone ==
    \A t \in Threads :
        /\ (thr[t].op \in MutatingOps /\ thr[t].pc = "load" /\ thr'[t].pc = "unlock") =>
              /\ Alone(thr[t], files[thr[t].dir]).ret = thr'[t].ret
              /\ Alone(thr[t], files[thr[t].dir]).file = files'[thr[t].dir]
        /\ (thr[t].pc = "write" /\ thr'[t].pc = "unlock" /\ files' # files) =>
              /\ Alone(thr[t], TableFile(thr[t].before)).ret = thr'[t].ret
              /\ Alone(thr[t], TableFile(thr[t].before)).file = files'[thr[t].dir]

\* C14: the mutating calls of the threads of one process take effect one at
\* a time, each as if it ran alone on the table the one before it left: no
\* call writes between another's load and write, so when the writes go
\* through the table is the one the calls give in the order of their loads.
\* Two creates for two paths both stay; of two creates for one path the
\* second returns the token of the first and adds no record.
C14_NoLostUpdate == []C14_NoneInBetween /\ [][C14_EachCallAlone]_vars

\* One thread has returned from a create; the other, at the end of a create
\* for another path, has saved: the file holds both records.
C14_Witness ==
    \E t1, t2 \in Threads :
        /\ thr[t1].pc = "done" /\ thr[t1].op = "create" /\ thr[t1].ret.kind = "token"
        /\ thr[t2].pc = "unlock" /\ thr[t2].op = "create"
        /\ thr[t2].ret = RetToken(thr[t2].tok)
        /\ thr[t2].ret # thr[t1].ret
        /\ Len(load_tokens(files["d1"]).tokens) = 2
        /\ get_share_token(files["d1"], thr[t2].path) = thr[t2].ret
        /\ \E p \in Paths :
              /\ p # thr[t2].path
              /\ get_share_token(files["d1"], p) = thr[t1].ret

\* One thread has returned from a create; the other, at the end of a create
\* for the same path, returns the same token: the file holds one record.
C14_SamePath ==
    \E t1, t2 \in Threads :
        /\ thr[t1].pc = "done" /\ thr[t1].op = "create" /\ thr[t1].ret.kind = "token"
        /\ thr[t2].pc = "unlock" /\ thr[t2].op = "create" /\ thr[t2].tok = 0
        /\ thr[t2].ret = thr[t1].ret
        /\ Len(load_tokens(files["d1"]).tokens) = 1
        /\ get_share_token(files["d1"], thr[t2].path) = thr[t2].ret

\* ------------------------------------------------------------------ C15
\* Scheduling of the threads of the server.  A thread inside a call goes on
\* running: its load, its open (which succeeds or fails), its write (which
\* completes or fails) and its return happen.  secrets.choice gives every
\* string with positive probability, so the generator's loop ends when a
\* string that is not a key exists.  A thread waiting for the lock gets it if
\* the lock comes free again and again (threading.Lock keeps no queue, so
\* this is the fairness the claim assumes of the scheduler).  Nothing obliges
\* a thread to call the module.
Fairness ==
    \A t \in Threads :
        /\ SF_vars(Acquire(t))
        /\ WF_vars(Load(t))
        /\ WF_vars(Read(t))
        /\ WF_vars(GenerateFresh(t))
        /\ WF_vars(OpenFails(t) \/ OpenTruncates(t))
        /\ WF_vars(WriteCompletes(t) \/ WriteFails(t))
        /\ WF_vars(Release(t))

\* The calls that take each way out of the mutating functions: create (new
\* record, path already shared, save failing), a rename and a revoke (record
\* found or not, save going through or failing), and a read beside them.
FairCalls ==
    {c \in Calls : \/ c.op = "create"
                   \/ c.op = "update" /\ c.path = "a.md" /\ c.arg = "b.md"
                   \/ c.op = "revoke" /\ c.path = "b.md"
                   \/ c.op = "list"}

FairNext ==
    \E t \in Threads :
        \/ Enter(t, FairCalls, {"d1"})
        \/ Acquire(t)
        \/ Load(t)
        \/ Read(t)
        \/ GenerateCollision(t)
        \/ GenerateFresh(t)
        \/ OpenFails(t)
        \/ OpenTruncates(t)
        \/ WriteCompletes(t)
        \/ WriteFails(t)
        \/ Release(t)

SpecFair == Init /\ [][FairNext]_vars /\ Fairness

\* A lock is held only by a thread inside the with block of a mutating call.
C15_LockFreeWhenIdle ==
    \A h \in held :
        /\ thr[h.owner].op \in MutatingOps
        /\ thr[h.owner].pc \in {"load", "gen", "open", "write", "unlock"}

\* Every string the generator can give is a key of the table some create
\* holds: its loop cannot end.
Exhausted == \E u \in Threads : thr[u].pc = "gen" /\ Tokens \subseteq Keys(thr[u].tokens)

\* C15: a lock is held only inside a mutating call, so it is free when none
\* is in progress, whichever way the calls ended; and under fair scheduling
\* a thread that has called create, revoke, delete or update_token_path
\* returns, unless a generator's loop has no string left to draw.
C15_ReleaseAndProgress ==
    /\ []C15_LockFreeWhenIdle
    /\ \A t \in Threads :
          (thr[t].pc = "lock") ~> (thr[t].pc = "done" \/ Exhausted)

\* Both threads have returned, one from a create whose save failed, the
\* other from a revoke or an update that found no record or could not save;
\* no lock is held.
C15_Witness ==
    \E t1, t2 \in Threads :
        /\ thr[t1].pc = "done" /\ thr[t1].op = "create" /\ thr[t1].ret = RetNone
        /\ thr[t2].pc = "done" /\ thr[t2].op \in {"revoke", "update"}
        /\ thr[t2].ret = RetBool(FALSE)
        /\ held = {}

\* ------------------------------------------------------------------ C16
\* An update_token_path that returned true left the table as it was but for
\* the path of the first record of old_path.
C16_RenamedOne ==
    (StepOf("update") /\ last'.ret = RetBool(TRUE)) =>
        LET i == FirstMatch(Table, last'.path)
            after == load_tokens(file').tokens
        IN  /\ i # 0
            /\ file'.kind = "table"
            /\ Len(after) = Len(Table)
            /\ Keys(after) = Keys(Table)
            /\ after[i] = Entry(Table[i].token, last'.arg, Table[i].theme, Table[i].created)
            /\ \A j \in DOMAIN Table : j # i => after[j] = Table[j]

\* An update_token_path for a path no record holds returned false and left
\* the file alone.
C16_NoMatchNoWrite ==
    (StepOf("update") /\ FirstMatch(Table, last'.path) = 0) =>
        /\ last'.ret = RetBool(FALSE)
        /\ file' = file

\* C16: a successful update_token_path(d, old, new) changes the path of the
\* first record whose path is old and nothing else: that record keeps its
\* key, theme and created, the keys of the table and every other record stay;
\* when no record has the path old, the call returns false and the file is
\* not written.
C16_FrameOfRename == [][C16_RenamedOne /\ C16_NoMatchNoWrite]_vars

\* A rename has succeeded on a table where two records held the old path:
\* the first has the new path, the second still the old one.
C16_Witness ==
    /\ last.op = "update"
    /\ last.ret = RetBool(TRUE)
    /\ last.arg # last.path
    /\ \E i, j \in DOMAIN Table :
          /\ i < j
          /\ Table[i].path = last.arg
          /\ Table[j].path = last.path

\* ------------------------------------------------------------------ C17
\* A read-only call leaves the file as it is.
C17_ReadsLeaveTheFile ==
    (\E op \in ReadingOps : StepOf(op)) => file' = file

\* A revoke that returned true took the first record of the path out of the
\* table and left the others, in their order.
C17_RevokedOne ==
    ((StepOf("revoke") \/ StepOf("delete")) /\ last'.ret = RetBool(TRUE)) =>
        LET i == FirstMatch(Table, last'.path)
            after == load_tokens(file').tokens
        IN  /\ i # 0
            /\ file'.kind = "table"
            /\ Len(after) = Len(Table) - 1
            /\ \A j \in DOMAIN after : after[j] = IF j < i THEN Table[j] ELSE Table[j + 1]

\* A revoke for a path no record holds returned false and left the file
\* alone.
C17_NoMatchNoWrite ==
    ((StepOf("revoke") \/ StepOf("delete")) /\ FirstMatch(Table, last'.path) = 0) =>
        /\ last'.ret = RetBool(FALSE)
        /\ file' = file

\* C17: get_share_token, get_note_by_token, get_all_shared_paths and
\* get_share_info never change the file; a successful revoke(d, p) removes
\* one record, the first whose path is p, and leaves every other record as
\* it was; a revoke with no matching record writes nothing and returns false.
C17_FrameOfReadsAndRevoke ==
    [][C17_ReadsLeaveTheFile /\ C17_RevokedOne /\ C17_NoMatchNoWrite]_vars

\* A revoke has succeeded on a table where two records held the path: the
\* second is still there, under its own token.
C17_Witness ==
    /\ last.op = "revoke"
    /\ last.ret = RetBool(TRUE)
    /\ Len(Table) = 1
    /\ Table[1].path = last.path

\* ------------------------------------------------------------------ C18
\* No function looks at the path it is handed: the empty string is a path
\* like any other for create, revoke and update_token_path.
AnyPaths == Paths \cup {""}

CreateEmptyPath ==
    \E theme \in Themes :
        \E token \in Draws(file, ""), outcome \in Writes(file, "", FALSE) :
            LET r == create_share_token(file, "", theme, token, clock, outcome)
            IN  /\ file' = r.file
                /\ last' = Call("create", "", theme, 0, r.ret)
                /\ UNCHANGED clock
                /\ UNCHANGED thrvars

RevokeEmptyPath ==
    \E outcome \in Writes(file, "", TRUE) :
        LET r == revoke_share_token(file, "", outcome)
        IN  /\ file' = r.file
            /\ last' = Call("revoke", "", NoField, 0, r.ret)
            /\ UNCHANGED clock
            /\ UNCHANGED thrvars

UpdateEmptyPath ==
    \E old_path \in AnyPaths, new_path \in AnyPaths :
        /\ old_path = "" \/ new_path = ""
        /\ \E outcome \in Writes(file, old_path, TRUE) :
              LET r == update_token_path(file, old_path, new_path, outcome)
              IN  /\ file' = r.file
                  /\ last' = Call("update", old_path, new_path, 0, r.ret)
                  /\ UNCHANGED clock
                  /\ UNCHANGED thrvars

\* Calls with any path, the empty one too, all at one instant.
NextAnyPath ==
    \/ Create
    \/ GetShareToken
    \/ GetNoteByToken
    \/ GetAllSharedPaths
    \/ Revoke
    \/ GetShareInfo
    \/ UpdateTokenPath
    \/ DeleteTokenForNote
    \/ CreateEmptyPath
    \/ RevokeEmptyPath
    \/ UpdateEmptyPath

SpecAnyPath == Init /\ [][NextAnyPath]_vars

\* The three views of path p agree, and they agree with the lookup by
\* token.
Agree(p) ==
    LET tok == get_share_token(file, p)
        info == get_share_info(file, p)
    IN  /\ (tok.kind = "token") = info.flag
        /\ (tok.kind = "token") = (p \in Listed)
        /\ tok.kind = "token" =>
              /\ get_note_by_token(file, tok.tok).path = p
              /\ info.tok = tok.tok

\* C18, as claimed: for every path, the empty string too, get_share_token is
\* not None iff get_share_info says shared iff the path is among
\* get_all_shared_paths; and the token resolves to the path and is the one
\* get_share_info gives.
C18_ViewsAgreeAnyPath == \A p \in AnyPaths : Agree(p)

\* C18, amended: the views agree for every path that is not the empty
\* string.  For the empty string get_share_token and get_share_info agree
\* with each other and with get_note_by_token, and get_all_shared_paths
\* never lists it.
C18_ViewsAgree ==
    /\ \A p \in Paths : Agree(p)
    /\ LET tok == get_share_token(file, "")
           info == get_share_info(file, "")
       IN  /\ (tok.kind = "token") = info.flag
           /\ tok.kind = "token" =>
                 /\ get_note_by_token(file, tok.tok).path = ""
                 /\ info.tok = tok.tok
           /\ "" \notin Listed

\* The table holds a record of the empty path and one of another path; the
\* listing has the other path alone.
C18_Witness ==
    /\ get_share_token(file, "").kind = "token"
    /\ get_share_info(file, "").flag
    /\ \E p \in Paths :
          /\ get_share_token(file, p).kind = "token"
          /\ get_all_shared_paths(file) = RetPaths(<<p>>)

\* ------------------------------------------------------------------ C19
\* This step is a revoke or a delete called on path p.
RevokeOf(p) == (StepOf("revoke") \/ StepOf("delete")) /\ last'.path = p

\* This step is an update_token_path that renamed record i of the table.
Renames(i) ==
    /\ StepOf("update")
    /\ last'.ret = RetBool(TRUE)
    /\ i = FirstMatch(Table, last'.path)

\* C19: every token of the table (each was returned by a create) still
\* resolves after any step that is not a revoke or delete of the path its
\* record holds: to that path, or to the new path when the step renamed its
\* record.  No create, update_token_path or revoke of another path removes
\* it or turns it to another note.
C19_TokenStability ==
    [][ \A i \in DOMAIN Table :
          ~RevokeOf(Table[i].path) =>
              get_note_by_token(file', Table[i].token) =
                  RetNote(IF Renames(i) THEN last'.arg ELSE Table[i].path,
                          ThemeOrDefault(Table[i].theme)) ]_vars

====
